---- MODULE Spec2Model ----
(***************************************************************************)
(* Model of words-helper.py: the combination generator, the word matcher,  *)
(* the positional filter, the constraint parser and main.                  *)
(*                                                                         *)
(* A character is its Unicode code point, a string a sequence of code      *)
(* points, so that Python's string comparison (lexicographic by code       *)
(* point) and the classes of the regular expression are computed and not   *)
(* assumed.                                                                *)
(***************************************************************************)
EXTENDS Integers, Sequences, FiniteSets, TLC

VARIABLES pc,                  \* position of the running call
          entry,               \* the function the run was started with
          symbols,             \* argument of get_all_combinations / find_words
          dictionary,          \* what get_words() returned: the lines of the file
          unique_combinations, \* value of get_all_combinations(symbols)
          result,              \* return value of find_words
          words,               \* get_need_words: the list being filtered
          length,              \* get_need_words: None or an integer
          kwargs,              \* ordered dict of constraints: sequence of <<key, value>>
          pos,                 \* get_need_words: number of words consumed by the loop
          yielded,             \* words yielded so far (printed, under main)
          unknown_args,        \* parse_kwargs: the tokens
          argi,                \* parse_kwargs: number of tokens consumed by the loop
          error,               \* the exception raised, or NoError
          events               \* log of the observable events of the run

vars == <<pc, entry, symbols, dictionary, unique_combinations, result, words,
          length, kwargs, pos, yielded, unknown_args, argi, error, events>>

----------------------------------------------------------------------------
(* Bounds of the model *)

MaxLen == 5        \* longest letter string passed as symbols
MaxDict == 3       \* most lines in the dictionary file
MaxWords == 2      \* most words in a list handed to get_need_words
MaxWordLen == 3    \* longest word in such a list
MaxArgs == 2       \* most extra command-line tokens
MaxTokLen == 4     \* longest extra command-line token

----------------------------------------------------------------------------
(* Values *)

\* Python's None, and an integer n, as values of one type
None == <<>>
Some(n) == <<n>>

NoError == [type |-> "NoError", arg |-> <<>>]
IndexError == [type |-> "IndexError", arg |-> <<>>]
ValueError(arg) == [type |-> "ValueError", arg |-> arg]

\* code points of the characters the model uses
Chr == [a  |-> 1072,   \* CYRILLIC SMALL LETTER A
        b  |-> 1073,   \* CYRILLIC SMALL LETTER BE
        v  |-> 1074,   \* CYRILLIC SMALL LETTER VE
        k  |-> 1082,   \* CYRILLIC SMALL LETTER KA
        l  |-> 1083,   \* CYRILLIC SMALL LETTER EL
        o  |-> 1086,   \* CYRILLIC SMALL LETTER O
        p  |-> 1087,   \* CYRILLIC SMALL LETTER PE
        s  |-> 1089,   \* CYRILLIC SMALL LETTER ES
        t  |-> 1090,   \* CYRILLIC SMALL LETTER TE
        la |-> 97,     \* LATIN SMALL LETTER A
        lb |-> 98,     \* LATIN SMALL LETTER B
        lx |-> 120,    \* LATIN SMALL LETTER X
        eq |-> 61,     \* EQUALS SIGN
        d0 |-> 48, d1 |-> 49, d2 |-> 50, d3 |-> 51, d5 |-> 53,
        us |-> 95,     \* LOW LINE
        nl |-> 10]     \* LINE FEED

Alphabet == {Chr.a, Chr.b}

\* all strings over the characters cs of length at most n
Strings(cs, n) == UNION {[1..k -> cs] : k \in 0..n}

Range(s) == {s[i] : i \in DOMAIN s}

\* Python's len()
len(s) == Len(s)

\* Python's str.__lt__: lexicographic by code point, a proper prefix is smaller
RECURSIVE StrLess(_, _)
StrLess(s, t) ==
    IF t = <<>> THEN FALSE
    ELSE IF s = <<>> THEN TRUE
    ELSE IF Head(s) # Head(t) THEN Head(s) < Head(t)
    ELSE StrLess(Tail(s), Tail(t))

----------------------------------------------------------------------------
(* get_all_combinations *)

\* faulty variant: a position may be chosen again (itertools.product)
RECURSIVE permutations_with_reuse(_, _)
permutations_with_reuse(ps, r) ==
    IF r = 0 THEN {<<>>}
    ELSE UNION {{<<i>> \o p : p \in permutations_with_reuse(ps, r - 1)} : i \in ps}

\* itertools.permutations(symbols, r): every ordered choice of r pairwise
\* distinct positions out of the positions ps, as tuples of positions
RECURSIVE permutations(_, _)
permutations(ps, r) ==
    IF r = 0 THEN {<<>>}
    ELSE UNION {{<<i>> \o p : p \in permutations(ps \ {i}, r - 1)} : i \in ps}

\* "".join(x) for one tuple of positions
join(s, p) == [j \in 1..Len(p) |-> s[p[j]]]

\* set(("".join(x) for x in itertools.permutations(symbols, index)))
UniqueOfLength(s, index) == {join(s, p) : p \in permutations(DOMAIN s, index)}

\* the for loop: the union over index = from .. len(symbols)
RECURSIVE CombinationLoop(_, _)
CombinationLoop(s, index) ==
    IF index > len(s) THEN {}
    ELSE UniqueOfLength(s, index) \cup CombinationLoop(s, index + 1)

\* faulty variant: the minimum length is 3 instead of 4
get_all_combinations_min3(s) ==
    IF len(s) < 3 THEN {} ELSE CombinationLoop(s, 3)

\* lines 29-35: the empty set below four letters, else the loop from 4
get_all_combinations(s) ==
    IF len(s) < 4 THEN {} ELSE CombinationLoop(s, 4)

----------------------------------------------------------------------------
(* find_words *)

\* faulty variant: key=lambda s: (len(s), s)
KeyLessAscendingLength(a, b) ==
    \/ len(a) < len(b)
    \/ len(a) = len(b) /\ StrLess(a, b)

\* key=lambda s: (-len(s), s), compared as Python compares tuples
KeyLess(a, b) ==
    \/ -len(a) < -len(b)
    \/ -len(a) = -len(b) /\ StrLess(a, b)

\* sorted(S, key=...) of a set of distinct strings
RECURSIVE sorted(_)
sorted(S) ==
    IF S = {} THEN <<>>
    ELSE LET m == CHOOSE x \in S : \A y \in S \ {x} : KeyLess(x, y)
         IN  <<m>> \o sorted(S \ {m})

\* faulty variant: len(x) < length
AllWordsStrict(dict, n) == {dict[i] : i \in {j \in DOMAIN dict : len(dict[j]) < n}}

\* all_words = set((x for x in get_words() if len(x) <= length))
AllWords(dict, n) == {dict[i] : i \in {j \in DOMAIN dict : len(dict[j]) <= n}}

\* the intersection and the sort of find_words, given the file's lines
find_words(combos, dict, n) == sorted(combos \cap AllWords(dict, n))

----------------------------------------------------------------------------
(* get_need_words *)

\* the value of a decimal digit
DigitValue(c) == IF c \in 48..57 THEN c - 48 ELSE c - 1632

\* int(v) of a string of decimal digits
RECURSIVE int(_)
int(v) ==
    IF v = <<>> THEN 0
    ELSE int(SubSeq(v, 1, Len(v) - 1)) * 10 + DigitValue(v[Len(v)])

\* word[j] does not raise IndexError: Python accepts -len(word) .. len(word) - 1
IndexInRange(word, j) == -len(word) <= j /\ j < len(word)

\* word[j] for a Python index j in range: a negative j counts from the end
GetItem(word, j) == IF j >= 0 THEN word[j + 1] ELSE word[len(word) + j + 1]

\* `if length and len(word) != length`: None and 0 are both falsy
\* faulty variant: a missing length rejects every word
LengthRejectsUnlessEqual(word, n) == n = None \/ len(word) # n[1]

LengthRejects(word, n) == n # None /\ n[1] # 0 /\ len(word) # n[1]

\* the inner loop over kwargs.items(), in the dict's order:
\* "good" (is_good stays True), "bad" (break) or "IndexError" (word[...] raised)
RECURSIVE CheckConstraints(_, _)
CheckConstraints(word, kw) ==
    IF kw = <<>> THEN "good"
    ELSE LET k == kw[1][1]
             j == int(kw[1][2]) - 1
         IN  IF ~IndexInRange(word, j) THEN "IndexError"
             ELSE IF GetItem(word, j) # k THEN "bad"
             ELSE CheckConstraints(word, Tail(kw))

----------------------------------------------------------------------------
(* parse_kwargs *)

\* \d of a str pattern: a Unicode decimal digit (ASCII and ARABIC-INDIC here)
IsDigit(c) == c \in 48..57 \/ c \in 1632..1641

\* a letter: Latin, or Cyrillic A..YA, a..ya, IO, io
IsLetter(c) ==
    \/ c \in 65..90 \/ c \in 97..122
    \/ c \in 1040..1103 \/ c = 1025 \/ c = 1105

\* \w of a str pattern: alphanumeric or the underscore
IsWordChar(c) == IsLetter(c) \/ IsDigit(c) \/ c = Chr.us

\* the class [\w<a-ya><A-YA><io><IO>]
IsKeyChar(c) == IsWordChar(c) \/ c \in 1040..1103 \/ c = 1025 \/ c = 1105

\* $ matches at the end and also just before a line feed that ends the string
BeforeDollar(arg) ==
    IF arg # <<>> /\ arg[Len(arg)] = Chr.nl THEN {arg, SubSeq(arg, 1, Len(arg) - 1)}
    ELSE {arg}

\* pattern.match(arg) for ^([\w...])=(\d+)$ is not None
Matches(arg) ==
    \E m \in BeforeDollar(arg) :
        /\ Len(m) >= 3
        /\ IsKeyChar(m[1])
        /\ m[2] = Chr.eq
        /\ \A i \in 3..Len(m) : IsDigit(m[i])

\* _match.groups(): the key and the digits; the greedy \d+ leaves a final
\* line feed outside the group
Groups(arg) ==
    LET m == IF arg[Len(arg)] = Chr.nl THEN SubSeq(arg, 1, Len(arg) - 1) ELSE arg
    IN  <<m[1], SubSeq(m, 3, Len(m))>>

\* kwargs[key] = value on an insertion-ordered dict
DictSet(d, key, value) ==
    IF \E i \in DOMAIN d : d[i][1] = key
    THEN [i \in DOMAIN d |-> IF d[i][1] = key THEN <<key, value>> ELSE d[i]]
    ELSE Append(d, <<key, value>>)

----------------------------------------------------------------------------
(* Inputs of the model *)

\* all sequences over S of length at most n
BoundedSeq(S, n) == UNION {[1..k -> S] : k \in 0..n}

\* the words and letters of the end-to-end scenario
kot == <<Chr.k, Chr.o, Chr.t>>
kto == <<Chr.k, Chr.t, Chr.o>>
sokol == <<Chr.s, Chr.o, Chr.k, Chr.o, Chr.l>>
solo == <<Chr.s, Chr.o, Chr.l, Chr.o>>
okst == <<Chr.o, Chr.k, Chr.s, Chr.t>>
ScenarioDictionary == <<kot, kto, sokol, solo>>

\* lines a dictionary file is made of: an empty last line, a word shorter
\* than 4, words of 4, 5 and 6 letters
Vocabulary == {<<>>,
               <<Chr.b, Chr.a, Chr.b>>,
               <<Chr.a, Chr.b, Chr.b, Chr.a>>,
               <<Chr.b, Chr.a, Chr.b, Chr.a>>,
               <<Chr.a, Chr.b, Chr.b, Chr.a, Chr.b>>,
               <<Chr.a, Chr.b, Chr.a, Chr.b, Chr.a, Chr.b>>}

Dictionaries == BoundedSeq(Vocabulary, MaxDict) \cup {ScenarioDictionary}

CombSymbols == Strings(Alphabet \cup {Chr.v}, MaxLen) \cup {okst}
FindSymbols == Strings(Alphabet, MaxLen) \cup {okst}

\* word lists for get_need_words: every single word, and lists of sample words
SampleWords == {<<>>, <<Chr.a>>, <<Chr.a, Chr.b>>, <<Chr.b, Chr.a>>}
WordLists == {<<w>> : w \in Strings(Alphabet, MaxWordLen)}
                 \cup BoundedSeq(SampleWords, MaxWords)

Lengths == {None} \cup {Some(n) : n \in 0..MaxWordLen}

\* positions as parse_kwargs leaves them: strings of digits
PositionValues == {<<Chr.d0 + p>> : p \in 0..(MaxWordLen + 1)}

\* the dicts parse_kwargs can return with keys of the alphabet
KwargsDicts ==
    {<<>>}
    \cup {<<<<k, v>>>> : k \in Alphabet, v \in PositionValues}
    \cup {d \in {<<<<k1, v1>>, <<k2, v2>>>> :
                     k1 \in Alphabet, k2 \in Alphabet,
                     v1 \in PositionValues, v2 \in PositionValues} :
              d[1][1] # d[2][1]}

\* tokens for parse_kwargs: every short token, and lists of sample tokens
TokenChars == {Chr.la, Chr.p, Chr.eq, Chr.d1, Chr.us, Chr.nl}
SampleTokens == {<<Chr.la, Chr.eq, Chr.d1>>,           \* a=1
                 <<Chr.la, Chr.eq, Chr.d2>>,           \* a=2
                 <<Chr.p, Chr.eq, Chr.d1>>,            \* pe=1
                 <<Chr.la, Chr.lb, Chr.eq, Chr.d3>>,   \* ab=3
                 <<Chr.la, Chr.eq, Chr.lx>>}           \* a=x
ArgLists == {<<t>> : t \in Strings(TokenChars, MaxTokLen)}
                \cup BoundedSeq(SampleTokens, MaxArgs)

\* command lines for main
MainLetters == {<<Chr.a, Chr.b>>,
                <<Chr.a, Chr.b, Chr.b, Chr.a>>,
                <<Chr.a, Chr.b, Chr.b, Chr.a, Chr.b>>}
MainLengths == {None, Some(0), Some(4), Some(5)}
MainTokens == {<<Chr.a, Chr.eq, Chr.d1>>,           \* a=1
               <<Chr.b, Chr.eq, Chr.d0>>,           \* be=0
               <<Chr.a, Chr.eq, Chr.d5>>,           \* a=5
               <<Chr.a, Chr.b, Chr.eq, Chr.d3>>,    \* a be=3
               <<Chr.a, Chr.eq, Chr.lx>>}           \* a=x
MainArgLists == BoundedSeq(MainTokens, MaxArgs)
MainDictionary == <<<<Chr.b, Chr.a, Chr.b, Chr.a>>,
                    <<Chr.a, Chr.b, Chr.b, Chr.a>>,
                    <<Chr.a, Chr.b, Chr.b, Chr.a, Chr.b>>,
                    <<Chr.b, Chr.a, Chr.b>>,
                    <<Chr.a, Chr.b, Chr.a, Chr.b, Chr.a, Chr.b>>,
                    <<>>>>

----------------------------------------------------------------------------
(* The calls as actions *)

\* where a function returns to: main goes on, a direct call is over
Continue(next) == IF entry = "main" THEN next ELSE "done"

\* a direct call of get_all_combinations(symbols)
CallGetAllCombinations ==
    /\ pc = "get_all_combinations"
    /\ unique_combinations' = get_all_combinations(symbols)
    /\ pc' = "done"
    /\ events' = Append(events, "get_all_combinations")
    /\ UNCHANGED <<entry, symbols, dictionary, result, words, length, kwargs,
                   pos, yielded, unknown_args, argi, error>>

\* find_words(symbols); get_words() reads one of the files `files`.
\* Under main its result is the list handed to get_need_words.
FindWords(files) ==
    /\ pc = "find_words"
    /\ unique_combinations' = get_all_combinations(symbols)
    /\ \E d \in files :
           /\ dictionary' = d
           /\ result' = find_words(unique_combinations', d, len(symbols))
    /\ words' = IF entry = "main" THEN result' ELSE words
    /\ pc' = Continue("get_need_words")
    /\ events' = events \o <<"find_words", "get_words", "get_all_combinations">>
    /\ UNCHANGED <<entry, symbols, length, kwargs, pos, yielded, unknown_args,
                   argi, error>>

\* one iteration of the loop of get_need_words over words; main prints
\* each word as the generator yields it
FilterStep ==
    /\ pc = "get_need_words"
    /\ pos < Len(words)
    /\ LET word == words[pos + 1]
           check == CheckConstraints(word, kwargs)
       IN  IF LengthRejects(word, length) \/ check = "bad"
           THEN /\ pos' = pos + 1
                /\ UNCHANGED <<pc, yielded, error, events>>
           ELSE IF check = "IndexError"
           THEN /\ error' = IndexError
                /\ pc' = "raised"
                /\ UNCHANGED <<pos, yielded, events>>
           ELSE /\ yielded' = Append(yielded, word)
                /\ pos' = pos + 1
                /\ events' = IF entry = "main" THEN Append(events, "print")
                                               ELSE events
                /\ UNCHANGED <<pc, error>>
    /\ UNCHANGED <<entry, symbols, dictionary, unique_combinations, result,
                   words, length, kwargs, unknown_args, argi>>

\* the loop of get_need_words is exhausted
FilterEnd ==
    /\ pc = "get_need_words"
    /\ pos = Len(words)
    /\ pc' = "done"
    /\ UNCHANGED <<entry, symbols, dictionary, unique_combinations, result,
                   words, length, kwargs, pos, yielded, unknown_args, argi,
                   error, events>>

\* what follows a ValueError of parse_kwargs: main catches it and calls
\* parser.error, which exits; a direct caller sees the exception
\* faulty variant: main swallows the ValueError and goes on
AfterValueErrorSwallowed == IF entry = "main" THEN "find_words" ELSE "raised"

AfterValueError == IF entry = "main" THEN "exit" ELSE "raised"

\* one iteration of the loop of parse_kwargs over unknown_args
ParseStep ==
    /\ pc = "parse_kwargs"
    /\ argi < Len(unknown_args)
    /\ LET arg == unknown_args[argi + 1]
       IN  IF ~Matches(arg)
           THEN /\ error' = ValueError(arg)
                /\ pc' = AfterValueError
                /\ events' = IF entry = "main"
                             THEN Append(events, "parser.error") ELSE events
                /\ UNCHANGED <<kwargs, argi>>
           ELSE /\ kwargs' = DictSet(kwargs, Groups(arg)[1], Groups(arg)[2])
                /\ argi' = argi + 1
                /\ UNCHANGED <<pc, error, events>>
    /\ UNCHANGED <<entry, symbols, dictionary, unique_combinations, result,
                   words, length, pos, yielded, unknown_args>>

\* parse_kwargs returns kwargs
ParseReturn ==
    /\ pc = "parse_kwargs"
    /\ argi = Len(unknown_args)
    /\ pc' = Continue("find_words")
    /\ UNCHANGED <<entry, symbols, dictionary, unique_combinations, result,
                   words, length, kwargs, pos, yielded, unknown_args, argi,
                   error, events>>

----------------------------------------------------------------------------
(* Specifications *)

\* get_all_combinations called on its own
InitComb ==
    /\ entry = "get_all_combinations" /\ pc = "get_all_combinations"
    /\ symbols \in CombSymbols
    /\ dictionary = <<>> /\ unique_combinations = {} /\ result = <<>>
    /\ words = <<>> /\ length = None /\ kwargs = <<>> /\ pos = 0
    /\ yielded = <<>> /\ unknown_args = <<>> /\ argi = 0
    /\ error = NoError /\ events = <<>>

NextComb == CallGetAllCombinations

SpecComb == InitComb /\ [][NextComb]_vars

\* find_words called on its own
InitFind ==
    /\ entry = "find_words" /\ pc = "find_words"
    /\ symbols \in FindSymbols
    /\ dictionary = <<>> /\ unique_combinations = {} /\ result = <<>>
    /\ words = <<>> /\ length = None /\ kwargs = <<>> /\ pos = 0
    /\ yielded = <<>> /\ unknown_args = <<>> /\ argi = 0
    /\ error = NoError /\ events = <<>>

NextFind == FindWords(Dictionaries)

SpecFind == InitFind /\ [][NextFind]_vars

\* get_need_words called on its own and consumed to its end
InitFilter ==
    /\ entry = "get_need_words" /\ pc = "get_need_words"
    /\ words \in WordLists
    /\ length \in Lengths
    /\ kwargs \in KwargsDicts
    /\ symbols = <<>> /\ dictionary = <<>> /\ unique_combinations = {}
    /\ result = <<>> /\ pos = 0
    /\ yielded = <<>> /\ unknown_args = <<>> /\ argi = 0
    /\ error = NoError /\ events = <<>>

NextFilter == FilterStep \/ FilterEnd

SpecFilter == InitFilter /\ [][NextFilter]_vars

\* parse_kwargs called on its own
InitParse ==
    /\ entry = "parse_kwargs" /\ pc = "parse_kwargs"
    /\ unknown_args \in ArgLists
    /\ symbols = <<>> /\ dictionary = <<>> /\ unique_combinations = {}
    /\ result = <<>> /\ words = <<>> /\ length = None /\ kwargs = <<>>
    /\ pos = 0 /\ yielded = <<>> /\ argi = 0
    /\ error = NoError /\ events = <<>>

NextParse == ParseStep \/ ParseReturn

SpecParse == InitParse /\ [][NextParse]_vars

\* main, after parse_known_args has split the command line into the
\* letters, the length option and the unknown arguments
Init ==
    /\ entry = "main" /\ pc = "parse_kwargs"
    /\ symbols \in MainLetters
    /\ length \in MainLengths
    /\ unknown_args \in MainArgLists
    /\ dictionary = <<>> /\ unique_combinations = {} /\ result = <<>>
    /\ words = <<>> /\ kwargs = <<>> /\ pos = 0
    /\ yielded = <<>> /\ argi = 0
    /\ error = NoError /\ events = <<>>

Next ==
    \/ ParseStep
    \/ ParseReturn
    \/ FindWords({MainDictionary})
    \/ FilterStep
    \/ FilterEnd

Spec == Init /\ [][Next]_vars

----------------------------------------------------------------------------
(* Claims *)

\* the number of occurrences of the character c in the string s
Count(c, s) == Cardinality({i \in DOMAIN s : s[i] = c})

\* t can be written with the letters of s, each position of s used at most once
Formable(t, s) == \A c \in Range(t) : Count(c, t) <= Count(c, s)

\* C1: get_all_combinations(S) is exactly the set of strings of length 4..|S|
\* that use each character at most as often as S holds it (the arrangements
\* of pairwise distinct positions of S); it is empty when |S| < 4.
C1_CombinationsAreArrangements ==
    pc = "done" =>
        unique_combinations =
            {t \in Strings(Range(symbols), len(symbols)) :
                 len(t) >= 4 /\ Formable(t, symbols)}

C1_Witness ==
    /\ pc = "done"
    /\ len(symbols) = 5
    /\ Cardinality(Range(symbols)) = 2
    /\ Cardinality(unique_combinations) > 5

NoDuplicates(s) == \A i, j \in DOMAIN s : s[i] = s[j] => i = j

\* C2: the list find_words returns has no duplicates and holds exactly the
\* dictionary entries that are members of get_all_combinations(S).
C2_ResultIsIntersection ==
    pc = "done" =>
        /\ NoDuplicates(result)
        /\ Range(result) = {w \in Range(dictionary) : w \in unique_combinations}

C2_Witness ==
    /\ pc = "done"
    /\ Len(dictionary) = 3
    /\ dictionary[1] = dictionary[3]
    /\ Len(result) = 2
    /\ len(result[1]) = len(symbols)

\* a before b in ascending lexicographic order, for strings of equal length:
\* they agree up to a position where a holds the smaller character
LexBefore(a, b) ==
    \E k \in DOMAIN a :
        /\ \A i \in 1..(k - 1) : a[i] = b[i]
        /\ a[k] < b[k]

\* C3: the list find_words returns is sorted by descending length and, among
\* words of equal length, in ascending lexicographic order.
C3_ResultIsSorted ==
    pc = "done" =>
        \A i \in 1..(Len(result) - 1) :
            \/ len(result[i]) > len(result[i + 1])
            \/ /\ len(result[i]) = len(result[i + 1])
               /\ LexBefore(result[i], result[i + 1])

C3_Witness ==
    /\ pc = "done"
    /\ Len(result) = 3
    /\ len(result[1]) > len(result[2])
    /\ len(result[2]) = len(result[3])

\* some constraint names a position beyond the end of the word w
BeyondEnd(w) == \E c \in DOMAIN kwargs : int(kwargs[c][2]) > len(w)

\* C4: when a constraint's position is greater than the length of a word of
\* the list, get_need_words raises no error, runs to the end of the list and
\* does not yield that word.
C4_ShortWordIsRejectedWithoutError ==
    \A i \in DOMAIN words :
        BeyondEnd(words[i]) =>
            /\ error = NoError
            /\ pc = "done" => /\ pos = Len(words)
                              /\ \A y \in DOMAIN yielded : yielded[y] # words[i]

\* C5: a yielded word has, for every constraint (c, p), the character c at
\* its 1-based position p, with 1 <= p <= length of the word.
C5_YieldedSatisfyEveryConstraint ==
    \A y \in DOMAIN yielded :
        \A c \in DOMAIN kwargs :
            LET p == int(kwargs[c][2])
            IN  /\ 1 <= p
                /\ p <= len(yielded[y])
                /\ yielded[y][p] = kwargs[c][1]

\* C6: when a length is given (0 included), every yielded word has that length.
C6_YieldedHaveTheLength ==
    length # None =>
        \A y \in DOMAIN yielded : len(yielded[y]) = length[1]

\* C7: with length None and no constraints get_need_words yields exactly the
\* words of its input, each once, in the input order, and raises nothing.
C7_NoFilterIsIdentity ==
    (length = None /\ kwargs = <<>>) =>
        /\ error = NoError
        /\ yielded = SubSeq(words, 1, pos)
        /\ pc = "done" => yielded = words

C7_Witness ==
    /\ length = None
    /\ kwargs = <<>>
    /\ pc = "done"
    /\ Len(yielded) = 2
    /\ yielded[1] # yielded[2]

\* a token of the shape the claim describes: one letter, '=', decimal digits
WellFormed(arg) ==
    /\ Len(arg) >= 3
    /\ IsLetter(arg[1])
    /\ arg[2] = Chr.eq
    /\ \A i \in 3..Len(arg) : arg[i] \in 48..57

\* C8: parse_kwargs accepts a token if and only if it is one letter, '=' and
\* one or more decimal digits; every other token raises an error naming it.
C8_AcceptsExactlyWellFormed ==
    /\ \A i \in 1..argi : WellFormed(unknown_args[i])
    /\ error # NoError =>
           /\ error = ValueError(unknown_args[argi + 1])
           /\ ~WellFormed(unknown_args[argi + 1])

\* some extra argument fails constraint parsing
HasMalformed == \E i \in DOMAIN unknown_args : ~Matches(unknown_args[i])

\* C9: a run of main with a malformed constraint token, wherever it stands,
\* never reads the dictionary, never calls find_words and prints no word.
C9_MalformedStopsBeforeLookup ==
    HasMalformed =>
        /\ pc \in {"parse_kwargs", "exit"}
        /\ \A e \in DOMAIN events :
               events[e] \notin {"get_words", "find_words",
                                 "get_all_combinations", "print"}

C9_Witness ==
    /\ pc = "exit"
    /\ argi = 1
    /\ Len(unknown_args) = 2
    /\ error = ValueError(unknown_args[2])
    /\ events = <<"parser.error">>

\* the end-to-end scenario has run
ScenarioDone ==
    /\ pc = "done"
    /\ symbols = okst
    /\ dictionary = ScenarioDictionary

\* C10 as stated: in the scenario the combinations include kot and kto, not
\* sokol nor solo, and find_words returns [kot, kto].
C10_ScenarioAsStated ==
    ScenarioDone =>
        /\ kot \in unique_combinations
        /\ kto \in unique_combinations
        /\ sokol \notin unique_combinations
        /\ solo \notin unique_combinations
        /\ result = <<kot, kto>>

\* C10 amended: in the scenario the combinations include none of the four
\* words (kot and kto have three letters, fewer than the minimum of four),
\* and find_words returns the empty list.
C10_ScenarioAmended ==
    ScenarioDone =>
        /\ kot \notin unique_combinations
        /\ kto \notin unique_combinations
        /\ sokol \notin unique_combinations
        /\ solo \notin unique_combinations
        /\ result = <<>>

C10_Witness ==
    /\ ScenarioDone
    /\ Cardinality(unique_combinations) = 24

====
